---- MODULE Spec2Model ----
(***************************************************************************)
(* A model of the interactive trading shell (cli.py), the orchestrator     *)
(* (trading_bot.py) and the exchange adapter (binance_client.py).          *)
(*                                                                         *)
(* Text is modelled as sequences of one-character strings, so that         *)
(* str.upper(), float() and int() are computed and not assumed.  Numbers   *)
(* that float() yields are kept as integers in thousandths.                *)
(* The remote exchange is the environment: every remote call draws its     *)
(* outcome (a response of some shape, a failure, or an interrupt signal    *)
(* delivered while the call blocks) from a small set.                      *)
(***************************************************************************)
EXTENDS Integers, Sequences, FiniteSets, TLC

VARIABLES
    pc,                 \* where the process is: "main" (not constructed), "started"
                        \* (run() is about to enter its loop), "prompt" (blocked in
                        \* input()), "loop" (an iteration has completed and the
                        \* loop is about to prompt), "done" (run() returned),
                        \* "failed" (exit status 1), "aborted" (killed by a signal)
    running,            \* TradingBot.running
    trade_count,        \* TradingBot.trade_count
    successful_trades,  \* TradingBot.successful_trades
    failed_trades,      \* TradingBot.failed_trades
    line,               \* the command line read by the current iteration (tokens)
    calls,              \* remote requests issued by the current step, in order
    botCalls,           \* orchestrator/adapter methods the shell invoked in the step
    out,                \* what the step printed, in order
    report,             \* what the step's display_performance_metrics call did
    vsResult,           \* outcome of the step's validate_symbol call
    placeRet,           \* outcome of the step's place_*_order call
    attemptsTrue,       \* history: number of place_*_order calls that returned True
    attemptsFalse,      \* history: number of place_*_order calls that returned False
    apiCall,            \* the adapter method called directly, with its arguments
    apiResult           \* what that adapter method returned or raised

vars == <<pc, running, trade_count, successful_trades, failed_trades, line, calls,
          botCalls, out, report, vsResult, placeRet, attemptsTrue, attemptsFalse,
          apiCall, apiResult>>

----------------------------------------------------------------------------
(* Bounds of the model. *)

\* order attempts made through the shell in one run
MaxTrades == 3
\* surplus arguments typed after a verb's last argument
MaxExtra == 1
\* positions in one exchange response
MaxPositions == 2

----------------------------------------------------------------------------
(* Text: characters, str.upper(), str.lower(), float(), int(). *)

Digits == <<"0", "1", "2", "3", "4", "5", "6", "7", "8", "9">>

IsDigit(c) == \E i \in 1..Len(Digits) : Digits[i] = c

DigitVal(c) == (CHOOSE i \in 1..Len(Digits) : Digits[i] = c) - 1

LowerChars == <<"a", "b", "c", "d", "e", "f", "g", "h", "i", "j", "k", "l", "m",
                "n", "o", "p", "q", "r", "s", "t", "u", "v", "w", "x", "y", "z">>
UpperChars == <<"A", "B", "C", "D", "E", "F", "G", "H", "I", "J", "K", "L", "M",
                "N", "O", "P", "Q", "R", "S", "T", "U", "V", "W", "X", "Y", "Z">>

UpperChar(c) ==
    IF \E i \in 1..Len(LowerChars) : LowerChars[i] = c
    THEN UpperChars[CHOOSE i \in 1..Len(LowerChars) : LowerChars[i] = c]
    ELSE c

LowerChar(c) ==
    IF \E i \in 1..Len(UpperChars) : UpperChars[i] = c
    THEN LowerChars[CHOOSE i \in 1..Len(UpperChars) : UpperChars[i] = c]
    ELSE c

\* str.upper()
Upper(s) == [i \in 1..Len(s) |-> UpperChar(s[i])]

\* str.lower()
Lower(s) == [i \in 1..Len(s) |-> LowerChar(s[i])]

RECURSIVE NatOf(_)
\* the value of a string of decimal digits
NatOf(ds) == IF ds = <<>> THEN 0
             ELSE NatOf(SubSeq(ds, 1, Len(ds) - 1)) * 10 + DigitVal(ds[Len(ds)])

AllDigits(ds) == \A i \in 1..Len(ds) : IsDigit(ds[i])

HasSign(s) == Len(s) > 0 /\ s[1] \in {"-", "+"}
Unsigned(s) == IF HasSign(s) THEN SubSeq(s, 2, Len(s)) ELSE s
SignOf(s) == IF Len(s) > 0 /\ s[1] = "-" THEN -1 ELSE 1

\* digits of a fraction, as thousandths
Thousandths(fs) ==
    LET padded == SubSeq(fs \o <<"0", "0", "0">>, 1, 3)
    IN  NatOf(padded)

\* float(s) for decimal literals: [-+] digits [. digits] with at least one
\* digit; anything else raises ValueError.  val is in thousandths.
ParseFloat(s) ==
    LET b    == Unsigned(s)
        dots == {i \in 1..Len(b) : b[i] = "."}
    IN  IF dots = {}
        THEN IF Len(b) > 0 /\ AllDigits(b)
             THEN [ok |-> TRUE, val |-> SignOf(s) * NatOf(b) * 1000]
             ELSE [ok |-> FALSE, val |-> 0]
        ELSE IF Cardinality(dots) = 1
             THEN LET d  == CHOOSE i \in dots : TRUE
                      ip == SubSeq(b, 1, d - 1)
                      fp == SubSeq(b, d + 1, Len(b))
                  IN  IF AllDigits(ip) /\ AllDigits(fp) /\ Len(ip) + Len(fp) > 0
                      THEN [ok |-> TRUE,
                            val |-> SignOf(s) * (NatOf(ip) * 1000 + Thousandths(fp))]
                      ELSE [ok |-> FALSE, val |-> 0]
             ELSE [ok |-> FALSE, val |-> 0]

\* int(s) for decimal literals: [-+] digits; anything else raises ValueError.
ParseInt(s) ==
    LET b == Unsigned(s)
    IN  IF Len(b) > 0 /\ AllDigits(b)
        THEN [ok |-> TRUE, val |-> SignOf(s) * NatOf(b)]
        ELSE [ok |-> FALSE, val |-> 0]

----------------------------------------------------------------------------
(* The exchange: what the remote API may answer. *)

BTC == <<"B", "T", "C">>
ETH == <<"E", "T", "H">>

\* one entry of futures_exchange_info()['symbols']; hasStatus is FALSE for an
\* entry without a 'status' key
SymbolEntry(sym, st, has) == [symbol |-> sym, status |-> st, hasStatus |-> has]

NoEntry == SymbolEntry(<<>>, "", FALSE)

ExchangeInfos ==
    { <<SymbolEntry(ETH, "BREAK", TRUE), SymbolEntry(BTC, "TRADING", TRUE)>>,
      <<SymbolEntry(BTC, "BREAK", TRUE), SymbolEntry(ETH, "TRADING", TRUE)>>,
      <<SymbolEntry(ETH, "TRADING", TRUE)>>,
      <<SymbolEntry(BTC, "", FALSE)>> }

\* outcome of one futures_exchange_info() call
InfoOutcomes ==
    [kind : {"ok"}, symbols : ExchangeInfos]
    \cup [kind : {"error", "interrupt"}, symbols : {<<>>}]

\* outcome of one futures_create_order() call: the response may lack keys
OrderOutcomes ==
    [kind : {"ok"}, hasOrderId : BOOLEAN, hasStatus : BOOLEAN]
    \cup [kind : {"api_error", "error", "interrupt"}, hasOrderId : {FALSE}, hasStatus : {FALSE}]

\* outcome of a remote call whose response the model does not look into
PlainOutcomes == {"ok", "error", "interrupt"}

\* the exception a failed remote call raises in the adapter
RaisedBy(kind) ==
    CASE kind = "ok" -> "none"
      [] kind = "api_error" -> "BinanceAPIException"
      [] kind = "error" -> "Exception"
      [] kind = "interrupt" -> "KeyboardInterrupt"

\* a remote request: the SDK method, the keyword arguments transmitted
\* (fields names the keywords that are part of the request) and how the
\* call ended ("ok": it returned a response)
Request(api, kind) ==
    [api |-> api, symbol |-> <<>>, side |-> "", type |-> "", quantity |-> 0,
     price |-> 0, stopPrice |-> 0, timeInForce |-> "", reduceOnly |-> FALSE,
     orderId |-> 0, limit |-> 0, fields |-> {}, ended |-> kind]

----------------------------------------------------------------------------
(* BinanceFuturesClient: the adapter. *)

RECURSIVE FirstMatch(_, _, _)
\* the for loop of get_symbol_info: index of the first entry for symbol, or 0
FirstMatch(symbols, symbol, i) ==
    IF i > Len(symbols) THEN 0
    ELSE IF symbols[i].symbol = symbol THEN i
    ELSE FirstMatch(symbols, symbol, i + 1)

\* get_symbol_info as it would be if an absent symbol were reported like a
\* failure of the remote call
get_symbol_info_remote_error(symbol, r) ==
    LET req == Request("futures_exchange_info", r.kind)
        i   == FirstMatch(r.symbols, symbol, 1)
    IN  IF r.kind # "ok"
        THEN [req |-> req, raised |-> RaisedBy(r.kind), info |-> NoEntry]
        ELSE IF i = 0
        THEN [req |-> req, raised |-> RaisedBy("error"), info |-> NoEntry]
        ELSE [req |-> req, raised |-> "none", info |-> r.symbols[i]]

\* BinanceFuturesClient.get_symbol_info
get_symbol_info(symbol, r) ==
    LET req == Request("futures_exchange_info", r.kind)
        i   == FirstMatch(r.symbols, symbol, 1)
    IN  IF r.kind # "ok"
        THEN [req |-> req, raised |-> RaisedBy(r.kind), info |-> NoEntry]
        ELSE IF i = 0
        THEN [req |-> req, raised |-> "ValueError", info |-> NoEntry]
        ELSE [req |-> req, raised |-> "none", info |-> r.symbols[i]]

\* BinanceFuturesClient.place_market_order
client_place_market_order(symbol, side, quantity, r) ==
    [req |-> [Request("futures_create_order", r.kind) EXCEPT
                 !.symbol = symbol, !.side = side, !.type = "MARKET",
                 !.quantity = quantity, !.reduceOnly = FALSE,
                 !.fields = {"symbol", "side", "type", "quantity", "reduceOnly"}],
     raised |-> RaisedBy(r.kind),
     order |-> r]

\* BinanceFuturesClient.place_limit_order
client_place_limit_order(symbol, side, quantity, price, r) ==
    [req |-> [Request("futures_create_order", r.kind) EXCEPT
                 !.symbol = symbol, !.side = side, !.type = "LIMIT",
                 !.quantity = quantity, !.price = price, !.timeInForce = "GTC",
                 !.reduceOnly = FALSE,
                 !.fields = {"symbol", "side", "type", "quantity", "price",
                             "timeInForce", "reduceOnly"}],
     raised |-> RaisedBy(r.kind),
     order |-> r]

\* place_stop_limit_order as it would be if it sent the limit price
place_stop_limit_order_with_price(symbol, side, quantity, price, stop_price, time_in_force, r) ==
    [req |-> [Request("futures_create_order", r.kind) EXCEPT
                 !.symbol = symbol, !.side = side, !.type = "STOP",
                 !.quantity = quantity, !.price = price, !.stopPrice = stop_price,
                 !.timeInForce = time_in_force,
                 !.fields = {"symbol", "side", "type", "quantity", "price",
                             "stopPrice", "timeInForce"}],
     raised |-> RaisedBy(r.kind),
     order |-> r]

\* BinanceFuturesClient.place_stop_limit_order
place_stop_limit_order(symbol, side, quantity, price, stop_price, time_in_force, r) ==
    [req |-> [Request("futures_create_order", r.kind) EXCEPT
                 !.symbol = symbol, !.side = side, !.type = "STOP_MARKET",
                 !.quantity = quantity, !.stopPrice = stop_price,
                 !.timeInForce = time_in_force,
                 !.fields = {"symbol", "side", "type", "quantity", "stopPrice",
                             "timeInForce"}],
     raised |-> RaisedBy(r.kind),
     order |-> r]

\* BinanceFuturesClient.cancel_order
client_cancel_order(symbol, order_id, kind) ==
    [req |-> [Request("futures_cancel_order", kind) EXCEPT
                 !.symbol = symbol, !.orderId = order_id,
                 !.fields = {"symbol", "orderId"}],
     raised |-> RaisedBy(kind)]

\* BinanceFuturesClient.get_account_info
get_account_info(kind) ==
    [req |-> Request("futures_account", kind), raised |-> RaisedBy(kind)]

\* BinanceFuturesClient.get_current_price
client_get_current_price(symbol, kind) ==
    [req |-> [Request("futures_symbol_ticker", kind) EXCEPT
                 !.symbol = symbol, !.fields = {"symbol"}],
     raised |-> RaisedBy(kind)]

\* BinanceFuturesClient.get_open_orders
get_open_orders(symbol, kind) ==
    [req |-> IF symbol # <<>>
             THEN [Request("futures_get_open_orders", kind) EXCEPT
                      !.symbol = symbol, !.fields = {"symbol"}]
             ELSE Request("futures_get_open_orders", kind),
     raised |-> RaisedBy(kind)]

\* BinanceFuturesClient.get_order_history
get_order_history(symbol, limit, kind) ==
    [req |-> [Request("futures_get_all_orders", kind) EXCEPT
                 !.symbol = symbol, !.limit = limit,
                 !.fields = {"symbol", "limit"}],
     raised |-> RaisedBy(kind)]

\* one entry of futures_position_information(); positionAmt is the decimal
\* string the exchange sends
Position(sym, amt) == [symbol |-> sym, positionAmt |-> amt]

RECURSIVE BySymbol(_, _)
\* [pos for pos in positions if pos['symbol'] == symbol]
BySymbol(positions, symbol) ==
    IF positions = <<>> THEN <<>>
    ELSE IF Head(positions).symbol = symbol
         THEN <<Head(positions)>> \o BySymbol(Tail(positions), symbol)
         ELSE BySymbol(Tail(positions), symbol)

RECURSIVE ActivePositions(_)
\* [pos for pos in positions if float(pos['positionAmt']) != 0]
ActivePositions(positions) ==
    IF positions = <<>> THEN <<>>
    ELSE IF ParseFloat(Head(positions).positionAmt).val # 0
         THEN <<Head(positions)>> \o ActivePositions(Tail(positions))
         ELSE ActivePositions(Tail(positions))

\* get_positions as it would be without the filter on the size
get_positions_unfiltered(symbol, r) ==
    LET req      == Request("futures_position_information", r.kind)
        selected == IF symbol # <<>> THEN BySymbol(r.positions, symbol)
                    ELSE r.positions
    IN  IF r.kind # "ok"
        THEN [req |-> req, raised |-> RaisedBy(r.kind), positions |-> <<>>]
        ELSE [req |-> req, raised |-> "none", positions |-> selected]

\* BinanceFuturesClient.get_positions; symbol <<>> stands for None (and for
\* the empty string, which "if symbol" treats alike)
get_positions(symbol, r) ==
    LET req      == Request("futures_position_information", r.kind)
        selected == IF symbol # <<>> THEN BySymbol(r.positions, symbol)
                    ELSE r.positions
    IN  IF r.kind # "ok"
        THEN [req |-> req, raised |-> RaisedBy(r.kind), positions |-> <<>>]
        ELSE IF \E i \in 1..Len(selected) : ~ParseFloat(selected[i].positionAmt).ok
        THEN [req |-> req, raised |-> "ValueError", positions |-> <<>>]
        ELSE [req |-> req, raised |-> "none", positions |-> ActivePositions(selected)]

----------------------------------------------------------------------------
(* TradingBot: the orchestrator.  Its methods are computed from the state  *)
(* of the bot and the outcomes of the remote calls they make; each yields  *)
(* the requests issued, what was printed, and how the counters move.       *)

\* "{:.2f}" of (successful / total) * 100, as [whole, frac]: the quotient
\* rounded to the nearest hundredth, ties to even
success_rate(successful, total) ==
    LET n == successful * 10000
        q == n \div total
        r == n % total
        h == IF 2 * r > total THEN q + 1
             ELSE IF 2 * r < total THEN q
             ELSE IF q % 2 = 0 THEN q ELSE q + 1
    IN  [whole |-> h \div 100, frac |-> h % 100]

NoRate == [whole |-> 0, frac |-> 0]

NoReport == [kind |-> "none", divided |-> FALSE, rate |-> NoRate,
             total |-> 0, successful |-> 0, failed |-> 0]

\* display_performance_metrics past its guard: the division (which raises
\* ZeroDivisionError on a zero count) and the metrics printed
compute_metrics(tc, st, ft) ==
    IF tc = 0
    THEN [kind |-> "ZeroDivisionError", divided |-> TRUE, rate |-> NoRate,
          total |-> tc, successful |-> st, failed |-> ft]
    ELSE [kind |-> "metrics", divided |-> TRUE, rate |-> success_rate(st, tc),
          total |-> tc, successful |-> st, failed |-> ft]

\* display_performance_metrics as it would be without its guard
display_performance_metrics_unguarded(tc, st, ft) == compute_metrics(tc, st, ft)

\* TradingBot.display_performance_metrics, on counters tc, st, ft
display_performance_metrics(tc, st, ft) ==
    IF tc = 0
    THEN [kind |-> "no_trades", divided |-> FALSE, rate |-> NoRate,
          total |-> 0, successful |-> 0, failed |-> 0]
    ELSE compute_metrics(tc, st, ft)

\* what one orchestrator method did: requests issued, lines printed, its
\* return ("true", "false", "none" for no value, "raised" for an Exception
\* that propagates, "interrupt" for a KeyboardInterrupt that propagates)
\* and the counter increments
Did(cs, printed, ret, dt, ds, df) ==
    [calls |-> cs, out |-> printed, ret |-> ret,
     dTrade |-> dt, dSucc |-> ds, dFail |-> df]

\* validate_symbol as it would be if it let a failed lookup propagate
validate_symbol_propagating(symbol, r) ==
    LET g == get_symbol_info(symbol, r)
    IN  IF g.raised = "KeyboardInterrupt" THEN Did(<<g.req>>, <<>>, "interrupt", 0, 0, 0)
        ELSE IF g.raised # "none" THEN Did(<<g.req>>, <<>>, "raised", 0, 0, 0)
        ELSE IF ~g.info.hasStatus THEN Did(<<g.req>>, <<>>, "false", 0, 0, 0)
        ELSE IF g.info.status = "TRADING" THEN Did(<<g.req>>, <<>>, "true", 0, 0, 0)
        ELSE Did(<<g.req>>, <<>>, "false", 0, 0, 0)

\* TradingBot.validate_symbol
validate_symbol(symbol, r) ==
    LET g == get_symbol_info(symbol, r)
    IN  IF g.raised = "KeyboardInterrupt" THEN Did(<<g.req>>, <<>>, "interrupt", 0, 0, 0)
        ELSE IF g.raised # "none" THEN Did(<<g.req>>, <<>>, "false", 0, 0, 0)
        ELSE IF ~g.info.hasStatus THEN Did(<<g.req>>, <<>>, "false", 0, 0, 0)
        ELSE IF g.info.status = "TRADING" THEN Did(<<g.req>>, <<>>, "true", 0, 0, 0)
        ELSE Did(<<g.req>>, <<>>, "false", 0, 0, 0)

\* place_market_order as it would be if it submitted again after a failure
place_market_order_retrying(symbol, side, quantity, r) ==
    LET c == client_place_market_order(symbol, side, quantity, r)
    IN  IF c.raised = "KeyboardInterrupt" THEN Did(<<c.req>>, <<>>, "interrupt", 0, 0, 0)
        ELSE IF c.raised # "none"
             THEN Did(<<c.req, c.req>>, <<"order_failed">>, "false", 1, 0, 1)
        ELSE IF ~c.order.hasOrderId THEN Did(<<c.req>>, <<"order_failed">>, "false", 1, 0, 1)
        ELSE IF ~c.order.hasStatus
             THEN Did(<<c.req>>, <<"order_placed", "order_failed">>, "false", 2, 1, 1)
        ELSE Did(<<c.req>>, <<"order_placed">>, "true", 1, 1, 0)

\* TradingBot.place_market_order
place_market_order(symbol, side, quantity, r) ==
    LET c == client_place_market_order(symbol, side, quantity, r)
    IN  IF c.raised = "KeyboardInterrupt" THEN Did(<<c.req>>, <<>>, "interrupt", 0, 0, 0)
        ELSE IF c.raised # "none" THEN Did(<<c.req>>, <<"order_failed">>, "false", 1, 0, 1)
        \* order['orderId'] raises KeyError before the counters move
        ELSE IF ~c.order.hasOrderId THEN Did(<<c.req>>, <<"order_failed">>, "false", 1, 0, 1)
        \* order['status'] raises KeyError after the counters moved
        ELSE IF ~c.order.hasStatus
             THEN Did(<<c.req>>, <<"order_placed", "order_failed">>, "false", 2, 1, 1)
        ELSE Did(<<c.req>>, <<"order_placed">>, "true", 1, 1, 0)

\* place_limit_order as it would be if a failed submission were not counted
\* as an attempt
place_limit_order_miscounting(symbol, side, quantity, price, r) ==
    LET c == client_place_limit_order(symbol, side, quantity, price, r)
    IN  IF c.raised = "KeyboardInterrupt" THEN Did(<<c.req>>, <<>>, "interrupt", 0, 0, 0)
        ELSE IF c.raised # "none" THEN Did(<<c.req>>, <<"order_failed">>, "false", 0, 0, 1)
        ELSE IF ~c.order.hasOrderId THEN Did(<<c.req>>, <<"order_failed">>, "false", 1, 0, 1)
        ELSE IF ~c.order.hasStatus
             THEN Did(<<c.req>>, <<"order_placed", "order_failed">>, "false", 2, 1, 1)
        ELSE Did(<<c.req>>, <<"order_placed">>, "true", 1, 1, 0)

\* TradingBot.place_limit_order
place_limit_order(symbol, side, quantity, price, r) ==
    LET c == client_place_limit_order(symbol, side, quantity, price, r)
    IN  IF c.raised = "KeyboardInterrupt" THEN Did(<<c.req>>, <<>>, "interrupt", 0, 0, 0)
        ELSE IF c.raised # "none" THEN Did(<<c.req>>, <<"order_failed">>, "false", 1, 0, 1)
        ELSE IF ~c.order.hasOrderId THEN Did(<<c.req>>, <<"order_failed">>, "false", 1, 0, 1)
        ELSE IF ~c.order.hasStatus
             THEN Did(<<c.req>>, <<"order_placed", "order_failed">>, "false", 2, 1, 1)
        ELSE Did(<<c.req>>, <<"order_placed">>, "true", 1, 1, 0)

\* cancel_order as it would be if it counted a failed cancellation as a
\* failed trade
cancel_order_counting(symbol, order_id, kind) ==
    LET c == client_cancel_order(symbol, order_id, kind)
    IN  IF c.raised = "KeyboardInterrupt" THEN Did(<<c.req>>, <<>>, "interrupt", 0, 0, 0)
        ELSE IF c.raised # "none" THEN Did(<<c.req>>, <<"cancel_failed">>, "false", 1, 0, 1)
        ELSE Did(<<c.req>>, <<"cancelled">>, "true", 0, 0, 0)

\* TradingBot.cancel_order
cancel_order(symbol, order_id, kind) ==
    LET c == client_cancel_order(symbol, order_id, kind)
    IN  IF c.raised = "KeyboardInterrupt" THEN Did(<<c.req>>, <<>>, "interrupt", 0, 0, 0)
        ELSE IF c.raised # "none" THEN Did(<<c.req>>, <<"cancel_failed">>, "false", 0, 0, 0)
        ELSE Did(<<c.req>>, <<"cancelled">>, "true", 0, 0, 0)

\* get_current_price as it would be if it asked again after a failure
get_current_price_retrying(symbol, kind) ==
    LET c == client_get_current_price(symbol, kind)
    IN  IF c.raised = "KeyboardInterrupt" THEN Did(<<c.req>>, <<>>, "interrupt", 0, 0, 0)
        ELSE IF c.raised # "none" THEN Did(<<c.req, c.req>>, <<>>, "raised", 0, 0, 0)
        ELSE Did(<<c.req>>, <<>>, "none", 0, 0, 0)

\* TradingBot.get_current_price: logs and re-raises
get_current_price(symbol, kind) ==
    LET c == client_get_current_price(symbol, kind)
    IN  IF c.raised = "KeyboardInterrupt" THEN Did(<<c.req>>, <<>>, "interrupt", 0, 0, 0)
        ELSE IF c.raised # "none" THEN Did(<<c.req>>, <<>>, "raised", 0, 0, 0)
        ELSE Did(<<c.req>>, <<>>, "none", 0, 0, 0)

\* TradingBot.display_account_info
display_account_info(kind) ==
    LET c == get_account_info(kind)
    IN  IF c.raised = "KeyboardInterrupt" THEN Did(<<c.req>>, <<>>, "interrupt", 0, 0, 0)
        ELSE IF c.raised # "none" THEN Did(<<c.req>>, <<"account_error">>, "none", 0, 0, 0)
        ELSE Did(<<c.req>>, <<"account_information">>, "none", 0, 0, 0)

\* TradingBot.display_positions
display_positions(r) ==
    LET c == get_positions(<<>>, r)
    IN  IF c.raised = "KeyboardInterrupt" THEN Did(<<c.req>>, <<>>, "interrupt", 0, 0, 0)
        ELSE IF c.raised # "none" THEN Did(<<c.req>>, <<"positions_error">>, "none", 0, 0, 0)
        ELSE IF c.positions = <<>> THEN Did(<<c.req>>, <<"no_open_positions">>, "none", 0, 0, 0)
        ELSE Did(<<c.req>>, <<"current_positions">>, "none", 0, 0, 0)

\* TradingBot.display_open_orders
display_open_orders(symbol, kind) ==
    LET c == get_open_orders(symbol, kind)
    IN  IF c.raised = "KeyboardInterrupt" THEN Did(<<c.req>>, <<>>, "interrupt", 0, 0, 0)
        ELSE IF c.raised # "none" THEN Did(<<c.req>>, <<"orders_error">>, "none", 0, 0, 0)
        ELSE Did(<<c.req>>, <<"open_orders">>, "none", 0, 0, 0)

----------------------------------------------------------------------------
(* TradingBotCLI: the shell.  A command line is the sequence of tokens     *)
(* that str.split() yields (tokens hold no whitespace).                    *)

V_help == <<"h", "e", "l", "p">>
V_info == <<"i", "n", "f", "o">>
V_positions == <<"p", "o", "s", "i", "t", "i", "o", "n", "s">>
V_orders == <<"o", "r", "d", "e", "r", "s">>
V_price == <<"p", "r", "i", "c", "e">>
V_buy_market == <<"b", "u", "y", "_", "m", "a", "r", "k", "e", "t">>
V_sell_market == <<"s", "e", "l", "l", "_", "m", "a", "r", "k", "e", "t">>
V_buy_limit == <<"b", "u", "y", "_", "l", "i", "m", "i", "t">>
V_sell_limit == <<"s", "e", "l", "l", "_", "l", "i", "m", "i", "t">>
V_cancel == <<"c", "a", "n", "c", "e", "l">>
V_history == <<"h", "i", "s", "t", "o", "r", "y">>
V_symbols == <<"s", "y", "m", "b", "o", "l", "s">>
V_performance == <<"p", "e", "r", "f", "o", "r", "m", "a", "n", "c", "e">>
V_start == <<"s", "t", "a", "r", "t">>
V_stop == <<"s", "t", "o", "p">>
V_quit == <<"q", "u", "i", "t">>
V_exit == <<"e", "x", "i", "t">>

Verbs == {V_help, V_info, V_positions, V_orders, V_price, V_buy_market,
          V_sell_market, V_buy_limit, V_sell_limit, V_cancel, V_history,
          V_symbols, V_performance, V_start, V_stop, V_quit, V_exit}

\* first tokens a user may type: the verbs, a verb in capitals, a non-verb
VerbTokens == Verbs \cup {<<"Q", "U", "I", "T">>, <<"f", "o", "o">>}

\* argument tokens a user may type: symbols, then quantities, prices and ids
SymbolTokens == {<<"b", "t", "c">>, ETH}
ValueTokens == {<<"1">>, <<"1", ".", "5">>, <<"a", "b", "c">>}
ExtraToken == <<"e", "x", "t", "r", "a">>

\* TradingBotCLI.parse_command, on the tokens of the stripped line
parse_command(parts) ==
    IF parts = <<>> THEN [cmd |-> <<>>, args |-> <<>>]
    ELSE [cmd |-> Lower(parts[1]),
          args |-> IF Len(parts) > 1 THEN SubSeq(parts, 2, Len(parts)) ELSE <<>>]

\* argument lists of exactly n tokens: a symbol, then values
ArgsOfLen(n) ==
    {a \in [1..n -> SymbolTokens \cup ValueTokens] :
        \A i \in 1..n : IF i = 1 THEN a[i] \in SymbolTokens ELSE a[i] \in ValueTokens}

\* argument lists typed after a verb that takes n arguments: too few, the
\* n arguments, and the n arguments followed by surplus tokens
ArgLists(n) ==
    UNION {ArgsOfLen(m) : m \in 0..n}
    \cup {a \o [i \in 1..k |-> ExtraToken] : a \in ArgsOfLen(n), k \in 1..MaxExtra}

\* the command lines whose verb parses to verb
Lines(verb, n) ==
    {<<t>> \o a : t \in {u \in VerbTokens : parse_command(<<u>>).cmd = verb},
                  a \in ArgLists(n)}

\* what one handler did: the requests it issued, the orchestrator and adapter
\* methods it invoked, what it printed, the return of validate_symbol and of
\* place_*_order, the counter increments, the performance report printed,
\* the running flag it set ("same" when untouched) and the exception that
\* leaves the handler ("none" when it returns)
Quiet ==
    [calls |-> <<>>, botCalls |-> <<>>, out |-> <<>>, vs |-> "none", place |-> "none",
     dTrade |-> 0, dSucc |-> 0, dFail |-> 0, report |-> NoReport, run |-> "same",
     raised |-> "none"]

Says(printed) == [Quiet EXCEPT !.out = printed]

Propagates(ret) ==
    IF ret = "interrupt" THEN "KeyboardInterrupt"
    ELSE IF ret = "raised" THEN "Exception"
    ELSE "none"

\* a handler that made one orchestrator or adapter call d
Called(d, name) ==
    [Quiet EXCEPT !.calls = d.calls, !.botCalls = <<name>>, !.out = d.out,
                  !.dTrade = d.dTrade, !.dSucc = d.dSucc, !.dFail = d.dFail,
                  !.raised = Propagates(d.ret)]

\* an order handler that stopped after validate_symbol
Validated(v, printed) ==
    [Quiet EXCEPT !.calls = v.calls, !.botCalls = <<"validate_symbol">>,
                  !.vs = v.ret, !.out = printed, !.raised = Propagates(v.ret)]

\* an order handler that went on to place the order
Placed(v, o, name) ==
    [Quiet EXCEPT !.calls = v.calls \o o.calls,
                  !.botCalls = <<"validate_symbol", name>>,
                  !.vs = v.ret, !.place = o.ret, !.out = o.out,
                  !.dTrade = o.dTrade, !.dSucc = o.dSucc, !.dFail = o.dFail,
                  !.raised = Propagates(o.ret)]

\* handle_buy_market as it would be if it validated the symbol before it
\* parsed the quantity
handle_buy_market_validating_first(args, ri, ro) ==
    IF Len(args) < 2 THEN Says(<<"usage">>)
    ELSE LET symbol   == Upper(args[1])
             quantity == ParseFloat(args[2])
             v        == validate_symbol(symbol, ri)
         IN  IF v.ret = "false" THEN Validated(v, <<"invalid_symbol">>)
             ELSE IF v.ret # "true" THEN Validated(v, <<>>)
             ELSE IF ~quantity.ok THEN Validated(v, <<"invalid_quantity">>)
             ELSE Placed(v, place_market_order(symbol, "BUY", quantity.val, ro),
                         "place_market_order")

\* TradingBotCLI.handle_buy_market
handle_buy_market(args, ri, ro) ==
    IF Len(args) < 2 THEN Says(<<"usage">>)
    ELSE LET symbol   == Upper(args[1])
             quantity == ParseFloat(args[2])
             v        == validate_symbol(symbol, ri)
         IN  IF ~quantity.ok THEN Says(<<"invalid_quantity">>)
             ELSE IF v.ret = "false" THEN Validated(v, <<"invalid_symbol">>)
             ELSE IF v.ret # "true" THEN Validated(v, <<>>)
             ELSE Placed(v, place_market_order(symbol, "BUY", quantity.val, ro),
                         "place_market_order")

\* TradingBotCLI.handle_sell_market
handle_sell_market(args, ri, ro) ==
    IF Len(args) < 2 THEN Says(<<"usage">>)
    ELSE LET symbol   == Upper(args[1])
             quantity == ParseFloat(args[2])
             v        == validate_symbol(symbol, ri)
         IN  IF ~quantity.ok THEN Says(<<"invalid_quantity">>)
             ELSE IF v.ret = "false" THEN Validated(v, <<"invalid_symbol">>)
             ELSE IF v.ret # "true" THEN Validated(v, <<>>)
             ELSE Placed(v, place_market_order(symbol, "SELL", quantity.val, ro),
                         "place_market_order")

\* TradingBotCLI.handle_buy_limit
handle_buy_limit(args, ri, ro) ==
    IF Len(args) < 3 THEN Says(<<"usage">>)
    ELSE LET symbol   == Upper(args[1])
             quantity == ParseFloat(args[2])
             price    == ParseFloat(args[3])
             v        == validate_symbol(symbol, ri)
         IN  IF ~quantity.ok \/ ~price.ok THEN Says(<<"invalid_quantity_or_price">>)
             ELSE IF v.ret = "false" THEN Validated(v, <<"invalid_symbol">>)
             ELSE IF v.ret # "true" THEN Validated(v, <<>>)
             ELSE Placed(v, place_limit_order(symbol, "BUY", quantity.val, price.val, ro),
                         "place_limit_order")

\* handle_sell_limit as it would be if it placed the order whatever
\* validate_symbol returned
handle_sell_limit_unvalidated(args, ri, ro) ==
    IF Len(args) < 3 THEN Says(<<"usage">>)
    ELSE LET symbol   == Upper(args[1])
             quantity == ParseFloat(args[2])
             price    == ParseFloat(args[3])
             v        == validate_symbol(symbol, ri)
         IN  IF ~quantity.ok \/ ~price.ok THEN Says(<<"invalid_quantity_or_price">>)
             ELSE IF v.ret \notin {"true", "false"} THEN Validated(v, <<>>)
             ELSE Placed(v, place_limit_order(symbol, "SELL", quantity.val, price.val, ro),
                         "place_limit_order")

\* TradingBotCLI.handle_sell_limit
handle_sell_limit(args, ri, ro) ==
    IF Len(args) < 3 THEN Says(<<"usage">>)
    ELSE LET symbol   == Upper(args[1])
             quantity == ParseFloat(args[2])
             price    == ParseFloat(args[3])
             v        == validate_symbol(symbol, ri)
         IN  IF ~quantity.ok \/ ~price.ok THEN Says(<<"invalid_quantity_or_price">>)
             ELSE IF v.ret = "false" THEN Validated(v, <<"invalid_symbol">>)
             ELSE IF v.ret # "true" THEN Validated(v, <<>>)
             ELSE Placed(v, place_limit_order(symbol, "SELL", quantity.val, price.val, ro),
                         "place_limit_order")

\* TradingBotCLI.handle_cancel
handle_cancel(args, kind) ==
    IF Len(args) < 2 THEN Says(<<"usage">>)
    ELSE LET symbol   == Upper(args[1])
             order_id == ParseInt(args[2])
         IN  IF ~order_id.ok THEN Says(<<"invalid_order_id">>)
             ELSE Called(cancel_order(symbol, order_id.val, kind), "cancel_order")

\* TradingBotCLI.handle_info
handle_info(args, kind) == Called(display_account_info(kind), "display_account_info")

\* TradingBotCLI.handle_positions
handle_positions(args, r) == Called(display_positions(r), "display_positions")

\* TradingBotCLI.handle_orders
handle_orders(args, kind) ==
    Called(display_open_orders(IF args # <<>> THEN args[1] ELSE <<>>, kind),
           "display_open_orders")

\* handle_price as it would be if it fell back to a default symbol
handle_price_defaulting(args, kind) ==
    LET d == get_current_price(IF args = <<>> THEN BTC ELSE Upper(args[1]), kind)
    IN  IF d.ret = "raised"
        THEN [Called(d, "get_current_price") EXCEPT
                 !.out = <<"price_error">>, !.raised = "none"]
        ELSE IF d.ret = "interrupt" THEN Called(d, "get_current_price")
        ELSE [Called(d, "get_current_price") EXCEPT !.out = <<"current_price">>]

\* TradingBotCLI.handle_price: catches what get_current_price re-raises
handle_price(args, kind) ==
    IF args = <<>> THEN Says(<<"usage">>)
    ELSE LET d == get_current_price(Upper(args[1]), kind)
         IN  IF d.ret = "raised"
             THEN [Called(d, "get_current_price") EXCEPT
                      !.out = <<"price_error">>, !.raised = "none"]
             ELSE IF d.ret = "interrupt" THEN Called(d, "get_current_price")
             ELSE [Called(d, "get_current_price") EXCEPT !.out = <<"current_price">>]

\* TradingBotCLI.handle_history: calls the adapter directly
handle_history(args, kind) ==
    IF args = <<>> THEN Says(<<"usage">>)
    ELSE LET c == get_order_history(Upper(args[1]), 20, kind)
             d == Did(<<c.req>>, <<>>, "none", 0, 0, 0)
         IN  IF c.raised = "KeyboardInterrupt"
             THEN [Called(d, "client.get_order_history") EXCEPT
                      !.raised = "KeyboardInterrupt"]
             ELSE IF c.raised # "none"
             THEN [Called(d, "client.get_order_history") EXCEPT !.out = <<"history_error">>]
             ELSE [Called(d, "client.get_order_history") EXCEPT !.out = <<"order_history">>]

\* TradingBotCLI.handle_symbols: calls the SDK directly
handle_symbols(args, ri) ==
    LET d == Did(<<Request("futures_exchange_info", ri.kind)>>, <<>>, "none", 0, 0, 0)
    IN  IF ri.kind = "interrupt"
        THEN [Called(d, "client.client.futures_exchange_info") EXCEPT
                 !.raised = "KeyboardInterrupt"]
        ELSE IF ri.kind # "ok" \/ \E i \in 1..Len(ri.symbols) : ~ri.symbols[i].hasStatus
        THEN [Called(d, "client.client.futures_exchange_info") EXCEPT
                 !.out = <<"symbols_error">>]
        ELSE [Called(d, "client.client.futures_exchange_info") EXCEPT
                 !.out = <<"available_symbols">>]

\* TradingBot.start
start(kind) ==
    [Called(display_account_info(kind), "start") EXCEPT !.run = "true"]

\* TradingBot.stop, on counters tc, st, ft
stop(tc, st, ft) ==
    [Quiet EXCEPT !.botCalls = <<"stop">>, !.run = "false",
                  !.report = display_performance_metrics(tc, st, ft)]

\* TradingBotCLI.handle_performance
handle_performance(args, tc, st, ft) ==
    [Quiet EXCEPT !.botCalls = <<"display_performance_metrics">>,
                  !.report = display_performance_metrics(tc, st, ft)]

\* TradingBotCLI.handle_start
handle_start(args, kind) == start(kind)

\* TradingBotCLI.handle_stop
handle_stop(args, tc, st, ft) == stop(tc, st, ft)

\* the else branch of the dispatch as it would be if it showed the command
\* table itself
unknown_command_helping(cmd) ==
    [Quiet EXCEPT !.botCalls = <<"display_help">>,
                  !.out = <<"unknown_command", "help_table">>]

\* the else branch of the dispatch in run(): two prints
unknown_command(cmd) == Says(<<"unknown_command", "help_hint">>)

\* run() calls self.handle_help(), which TradingBotCLI does not define:
\* AttributeError
handle_help == [Quiet EXCEPT !.raised = "Exception"]

\* _initialize_client as it would be if it logged a failed connection test
\* and went on
initialize_client_swallowing(kind) ==
    [req |-> Request("futures_account", kind),
     raised |-> IF kind = "interrupt" THEN RaisedBy(kind) ELSE "none"]

\* BinanceFuturesClient._initialize_client: the connection test
initialize_client(kind) ==
    [req |-> Request("futures_account", kind), raised |-> RaisedBy(kind)]

\* the end of run() as it would be without the finally clause
leave_loop_without_stop(tc, st, ft) == Quiet

\* the finally clause of run(): self.bot.stop()
leave_loop(tc, st, ft) == stop(tc, st, ft)

\* the running flag after a method set it to r ("same": untouched)
Flag(cur, r) == IF r = "same" THEN cur ELSE r = "true"

----------------------------------------------------------------------------
(* The environment's answers to the position query. *)

AmountTokens == {<<"0", ".", "0", "0", "0">>, <<"0", ".", "5">>, <<"-", "1">>}

Positions == {Position(sym, amt) : sym \in {BTC, ETH}, amt \in AmountTokens}

PositionLists == UNION {[1..n -> Positions] : n \in 0..MaxPositions}

PositionOutcomes ==
    [kind : {"ok"}, positions : PositionLists]
    \cup [kind : {"error", "interrupt"}, positions : {<<>>}]

----------------------------------------------------------------------------
(* The process: main, then one step per iteration of the loop of run().    *)

NoApi == [name |-> "none"]

Init ==
    /\ pc = "main"
    /\ running = FALSE
    /\ trade_count = 0
    /\ successful_trades = 0
    /\ failed_trades = 0
    /\ line = <<>>
    /\ calls = <<>>
    /\ botCalls = <<>>
    /\ out = <<>>
    /\ report = NoReport
    /\ vsResult = "none"
    /\ placeRet = "none"
    /\ attemptsTrue = 0
    /\ attemptsFalse = 0
    /\ apiCall = NoApi
    /\ apiResult = NoApi

\* the body of the loop of run() for the line ln whose handler did S; brk is
\* TRUE for the verbs that break.  A KeyboardInterrupt or EOFError leaves the
\* loop, any other exception is reported and the loop goes on; leaving the
\* loop runs the finally clause.
Iterate(ln, step, brk) ==
    \E S \in {step} :
    LET tc      == trade_count + S.dTrade
        st      == successful_trades + S.dSucc
        ft      == failed_trades + S.dFail
        leaving == brk \/ S.raised \in {"KeyboardInterrupt", "EOFError"}
        fin     == IF leaving THEN leave_loop(tc, st, ft) ELSE Quiet
    IN  /\ attemptsTrue + attemptsFalse
             + (IF S.place \in {"true", "false"} THEN 1 ELSE 0) <= MaxTrades
        /\ line' = ln
        /\ calls' = S.calls \o fin.calls
        /\ botCalls' = S.botCalls \o fin.botCalls
        /\ out' = S.out \o (IF leaving THEN <<"goodbye">>
                            ELSE IF S.raised # "none" THEN <<"unexpected_error">>
                            ELSE <<>>)
        /\ trade_count' = tc
        /\ successful_trades' = st
        /\ failed_trades' = ft
        /\ running' = Flag(Flag(running, S.run), fin.run)
        /\ report' = IF leaving THEN fin.report ELSE S.report
        /\ vsResult' = S.vs
        /\ placeRet' = S.place
        /\ attemptsTrue' = attemptsTrue + (IF S.place = "true" THEN 1 ELSE 0)
        /\ attemptsFalse' = attemptsFalse + (IF S.place = "false" THEN 1 ELSE 0)
        /\ pc' = IF leaving THEN "done" ELSE "loop"
        /\ UNCHANGED <<apiCall, apiResult>>

\* __main__: TradingBotCLI() constructs the bot and the adapter, whose
\* connection test may fail; run() then starts the bot before its loop
Main ==
    /\ pc = "main"
    /\ \E k1 \in PlainOutcomes, k2 \in PlainOutcomes :
        LET c == initialize_client(k1)
            s == start(k2)
        IN  /\ calls' = IF c.raised = "none" THEN <<c.req>> \o s.calls ELSE <<c.req>>
            /\ botCalls' = IF c.raised = "none" THEN s.botCalls ELSE <<>>
            /\ out' = IF c.raised = "none" THEN <<"welcome">> \o s.out
                      ELSE IF c.raised = "KeyboardInterrupt" THEN <<>>
                      ELSE <<"failed_to_start">>
            /\ running' = IF c.raised = "none" THEN Flag(running, s.run) ELSE running
            /\ pc' = IF c.raised = "KeyboardInterrupt" THEN "aborted"
                     ELSE IF c.raised # "none" THEN "failed"
                     ELSE IF s.raised = "KeyboardInterrupt" THEN "aborted"
                     ELSE "started"
    /\ UNCHANGED <<trade_count, successful_trades, failed_trades, line, report,
                   vsResult, placeRet, attemptsTrue, attemptsFalse, apiCall, apiResult>>

\* the loop of run() comes round to input(): a new iteration begins, and what
\* was observed of the previous step is dropped
Prompt ==
    /\ pc \in {"started", "loop"}
    /\ pc' = "prompt"
    /\ line' = <<>>
    /\ calls' = <<>>
    /\ botCalls' = <<>>
    /\ out' = <<>>
    /\ report' = NoReport
    /\ vsResult' = "none"
    /\ placeRet' = "none"
    /\ UNCHANGED <<running, trade_count, successful_trades, failed_trades,
                   attemptsTrue, attemptsFalse, apiCall, apiResult>>

EmptyLine == pc = "prompt" /\ Iterate(<<>>, Quiet, FALSE)

InterruptAtPrompt ==
    pc = "prompt" /\ Iterate(<<>>, [Quiet EXCEPT !.raised = "KeyboardInterrupt"], FALSE)

EndOfInput ==
    pc = "prompt" /\ Iterate(<<>>, [Quiet EXCEPT !.raised = "EOFError"], FALSE)

Quit ==
    /\ pc = "prompt"
    /\ \E ln \in Lines(V_quit, 0) \cup Lines(V_exit, 0) : Iterate(ln, Quiet, TRUE)

Help ==
    /\ pc = "prompt"
    /\ \E ln \in Lines(V_help, 0) : Iterate(ln, handle_help, FALSE)

Info ==
    /\ pc = "prompt"
    /\ \E ln \in Lines(V_info, 0), k \in PlainOutcomes :
        Iterate(ln, handle_info(parse_command(ln).args, k), FALSE)

ShowPositions ==
    /\ pc = "prompt"
    /\ \E ln \in Lines(V_positions, 0), r \in PositionOutcomes :
        Iterate(ln, handle_positions(parse_command(ln).args, r), FALSE)

Orders ==
    /\ pc = "prompt"
    /\ \E ln \in Lines(V_orders, 1), k \in PlainOutcomes :
        Iterate(ln, handle_orders(parse_command(ln).args, k), FALSE)

Price ==
    /\ pc = "prompt"
    /\ \E ln \in Lines(V_price, 1), k \in PlainOutcomes :
        Iterate(ln, handle_price(parse_command(ln).args, k), FALSE)

\* the handler the loop dispatches an order verb to
handle_order(verb, args, ri, ro) ==
    IF verb = V_buy_market THEN handle_buy_market(args, ri, ro)
    ELSE IF verb = V_sell_market THEN handle_sell_market(args, ri, ro)
    ELSE IF verb = V_buy_limit THEN handle_buy_limit(args, ri, ro)
    ELSE handle_sell_limit(args, ri, ro)

\* an iteration that runs the handler of an order verb on the line ln.  The exchange
\* answers only the calls that are made: no answer is drawn for a lookup or
\* a submission that the handler does not reach.
OrderIteration(ln, verb) ==
    LET args == parse_command(ln).args
        ri0  == [kind |-> "error", symbols |-> <<>>]
        ro0  == [kind |-> "error", hasOrderId |-> FALSE, hasStatus |-> FALSE]
    IN  \E ri \in IF handle_order(verb, args, ri0, ro0).calls = <<>> THEN {ri0} ELSE InfoOutcomes :
            \E ro \in IF Len(handle_order(verb, args, ri, ro0).calls) < 2 THEN {ro0} ELSE OrderOutcomes :
                Iterate(ln, handle_order(verb, args, ri, ro), FALSE)

BuyMarket ==
    /\ pc = "prompt"
    /\ \E ln \in Lines(V_buy_market, 2) : OrderIteration(ln, V_buy_market)

SellMarket ==
    /\ pc = "prompt"
    /\ \E ln \in Lines(V_sell_market, 2) : OrderIteration(ln, V_sell_market)

BuyLimit ==
    /\ pc = "prompt"
    /\ \E ln \in Lines(V_buy_limit, 3) : OrderIteration(ln, V_buy_limit)

SellLimit ==
    /\ pc = "prompt"
    /\ \E ln \in Lines(V_sell_limit, 3) : OrderIteration(ln, V_sell_limit)

Cancel ==
    /\ pc = "prompt"
    /\ \E ln \in Lines(V_cancel, 2), k \in PlainOutcomes :
        Iterate(ln, handle_cancel(parse_command(ln).args, k), FALSE)

History ==
    /\ pc = "prompt"
    /\ \E ln \in Lines(V_history, 1), k \in PlainOutcomes :
        Iterate(ln, handle_history(parse_command(ln).args, k), FALSE)

Symbols ==
    /\ pc = "prompt"
    /\ \E ln \in Lines(V_symbols, 0), ri \in InfoOutcomes :
        Iterate(ln, handle_symbols(parse_command(ln).args, ri), FALSE)

Performance ==
    /\ pc = "prompt"
    /\ \E ln \in Lines(V_performance, 0) :
        Iterate(ln, handle_performance(parse_command(ln).args, trade_count,
                                       successful_trades, failed_trades), FALSE)

Start ==
    /\ pc = "prompt"
    /\ \E ln \in Lines(V_start, 0), k \in PlainOutcomes :
        Iterate(ln, handle_start(parse_command(ln).args, k), FALSE)

Stop ==
    /\ pc = "prompt"
    /\ \E ln \in Lines(V_stop, 0) :
        Iterate(ln, handle_stop(parse_command(ln).args, trade_count,
                                successful_trades, failed_trades), FALSE)

\* the else branch of the dispatch: the first token is no verb
Unknown ==
    /\ pc = "prompt"
    /\ \E t \in VerbTokens, a \in ArgLists(1) :
        /\ parse_command(<<t>> \o a).cmd \notin Verbs
        /\ Iterate(<<t>> \o a, unknown_command(parse_command(<<t>> \o a).cmd), FALSE)

\* the status the process exits with: sys.exit(1) after the failure message
\* of __main__, 0 when run() returns, "interrupt" when a KeyboardInterrupt
\* leaves __main__, "none" while the process runs
exit_status ==
    IF pc = "failed" THEN "1"
    ELSE IF pc = "done" THEN "0"
    ELSE IF pc = "aborted" THEN "interrupt"
    ELSE "none"

Next ==
    \/ Main
    \/ Prompt
    \/ EmptyLine
    \/ InterruptAtPrompt
    \/ EndOfInput
    \/ Quit
    \/ Help
    \/ Info
    \/ ShowPositions
    \/ Orders
    \/ Price
    \/ BuyMarket
    \/ SellMarket
    \/ BuyLimit
    \/ SellLimit
    \/ Cancel
    \/ History
    \/ Symbols
    \/ Performance
    \/ Start
    \/ Stop
    \/ Unknown

Spec == Init /\ [][Next]_vars

----------------------------------------------------------------------------
(* The adapter's and the orchestrator's methods called on their own, with  *)
(* arguments and remote answers drawn from bounded sets.                   *)

Sides == {"BUY", "SELL"}
TimesInForce == {"GTC", "IOC", "FOK"}
\* quantities and prices, in thousandths
Quantities == {1000, 1500}
Prices == {0, 95000, 100000}

MethodInit ==
    /\ pc = "idle"
    /\ running = FALSE
    /\ trade_count = 0
    /\ successful_trades = 0
    /\ failed_trades = 0
    /\ line = <<>>
    /\ calls = <<>>
    /\ botCalls = <<>>
    /\ out = <<>>
    /\ report = NoReport
    /\ vsResult = "none"
    /\ placeRet = "none"
    /\ attemptsTrue = 0
    /\ attemptsFalse = 0
    /\ apiCall = NoApi
    /\ apiResult = NoApi

\* a method was called with the arguments in call and yielded result, having
\* issued the requests cs
Invoke(call, result, cs) ==
    /\ pc' = "returned"
    /\ apiCall' = call
    /\ apiResult' = result
    /\ calls' = cs
    /\ UNCHANGED <<running, trade_count, successful_trades, failed_trades, line,
                   botCalls, out, report, vsResult, placeRet, attemptsTrue,
                   attemptsFalse>>

CallGetPositions ==
    /\ pc = "idle"
    /\ \E symbol \in {<<>>, BTC, ETH}, r \in PositionOutcomes :
           LET res == get_positions(symbol, r)
           IN  Invoke([name |-> "get_positions", symbol |-> symbol, response |-> r],
                      res, <<res.req>>)

CallPlaceStopLimitOrder ==
    /\ pc = "idle"
    /\ \E symbol \in {BTC, ETH}, side \in Sides, quantity \in Quantities,
          price \in Prices, stop_price \in Prices \ {0},
          time_in_force \in TimesInForce, r \in OrderOutcomes :
           LET res == place_stop_limit_order(symbol, side, quantity, price, stop_price,
                                             time_in_force, r)
           IN  Invoke([name |-> "place_stop_limit_order", symbol |-> symbol,
                       side |-> side, quantity |-> quantity, price |-> price,
                       stop_price |-> stop_price, time_in_force |-> time_in_force,
                       response |-> r],
                      res, <<res.req>>)

CallValidateSymbol ==
    /\ pc = "idle"
    /\ \E symbol \in {BTC, ETH}, r \in InfoOutcomes :
           LET res == validate_symbol(symbol, r)
           IN  Invoke([name |-> "validate_symbol", symbol |-> symbol, response |-> r],
                      res, res.calls)

CallGetSymbolInfo ==
    /\ pc = "idle"
    /\ \E symbol \in {BTC, ETH}, r \in InfoOutcomes :
           LET res == get_symbol_info(symbol, r)
           IN  Invoke([name |-> "get_symbol_info", symbol |-> symbol, response |-> r],
                      res, <<res.req>>)

\* the caller goes on to its next call
Return ==
    /\ pc = "returned"
    /\ pc' = "idle"
    /\ apiCall' = NoApi
    /\ apiResult' = NoApi
    /\ calls' = <<>>
    /\ UNCHANGED <<running, trade_count, successful_trades, failed_trades, line,
                   botCalls, out, report, vsResult, placeRet, attemptsTrue,
                   attemptsFalse>>

MethodNext ==
    \/ CallGetPositions
    \/ CallPlaceStopLimitOrder
    \/ CallValidateSymbol
    \/ CallGetSymbolInfo
    \/ Return

MethodSpec == MethodInit /\ [][MethodNext]_vars

----------------------------------------------------------------------------
(* The claims.                                                             *)

\* the parsed command of the current iteration
Cmd == parse_command(line).cmd
Args == parse_command(line).args

\* an iteration of the loop has completed (and perhaps ended the loop)
AfterIteration == pc \in {"loop", "done"}

MarketVerbs == {V_buy_market, V_sell_market}
LimitVerbs == {V_buy_limit, V_sell_limit}
OrderVerbs == MarketVerbs \cup LimitVerbs

\* the order submission among the requests cs
OrderCallOf(cs) == cs[CHOOSE i \in 1..Len(cs) : cs[i].api = "futures_create_order"]

\* C1: whenever the orchestrator's place_market_order or place_limit_order
\* was called, it raised nothing; if the adapter's submission returned, the
\* successful-trade counter went up by one and the call returned true; if the
\* submission failed, the failed-trade counter went up by one and the call
\* returned false.
C1_PlaceOrderContract ==
    [][(pc = "prompt" /\ placeRet' \notin {"none", "interrupt"}) =>
          /\ placeRet' \in {"true", "false"}
          /\ OrderCallOf(calls').ended = "ok" =>
                /\ successful_trades' = successful_trades + 1
                /\ placeRet' = "true"
          /\ OrderCallOf(calls').ended # "ok" =>
                /\ failed_trades' = failed_trades + 1
                /\ placeRet' = "false"]_vars

\* a token that no numeric literal can be: it holds a character other than a
\* digit, a point or a sign
NotNumeric(tok) ==
    \E i \in 1..Len(tok) : ~IsDigit(tok[i]) /\ tok[i] \notin {".", "-", "+"}

\* a token that no integer literal can be
NotInteger(tok) ==
    \E i \in 1..Len(tok) : ~IsDigit(tok[i]) /\ tok[i] \notin {"-", "+"}

\* the line ln has the arguments its verb needs, and a quantity or price that
\* is not numeric, or an order id that is not an integer
BadNumber(ln) ==
    LET p == parse_command(ln)
    IN  \/ p.cmd \in MarketVerbs /\ Len(p.args) >= 2 /\ NotNumeric(p.args[2])
        \/ /\ p.cmd \in LimitVerbs
           /\ Len(p.args) >= 3
           /\ NotNumeric(p.args[2]) \/ NotNumeric(p.args[3])
        \/ p.cmd = V_cancel /\ Len(p.args) >= 2 /\ NotInteger(p.args[2])

\* the format error each verb prints
FormatError(cmd) ==
    IF cmd \in MarketVerbs THEN "invalid_quantity"
    ELSE IF cmd \in LimitVerbs THEN "invalid_quantity_or_price"
    ELSE "invalid_order_id"

\* C2: a buy_market, sell_market, buy_limit, sell_limit or cancel command
\* whose quantity or price is not numeric (whose order id is not an integer)
\* prints the format error and nothing else, calls neither the orchestrator
\* nor the adapter, issues no remote request and leaves the counters as
\* they were.
C2_BadNumberNotDispatched ==
    [][(pc = "prompt" /\ BadNumber(line')) =>
          /\ out' = <<FormatError(parse_command(line').cmd)>>
          /\ botCalls' = <<>>
          /\ calls' = <<>>
          /\ vsResult' = "none"
          /\ placeRet' = "none"
          /\ UNCHANGED <<trade_count, successful_trades, failed_trades>>]_vars

\* C2 witness: buy_market with a quantity of letters was rejected
C2_Witness ==
    /\ pc = "loop"
    /\ Cmd = V_buy_market
    /\ BadNumber(line)
    /\ out = <<"invalid_quantity">>

\* the verbs that need arguments, and how many
ArgVerbs == OrderVerbs \cup {V_cancel, V_price, V_history}

RequiredArgs(cmd) ==
    IF cmd \in LimitVerbs THEN 3
    ELSE IF cmd \in MarketVerbs \cup {V_cancel} THEN 2
    ELSE 1

\* the arguments a verb needs are there and parse
WellFormed(cmd, args) ==
    /\ Len(args) >= RequiredArgs(cmd)
    /\ cmd \in OrderVerbs => ParseFloat(args[2]).ok
    /\ cmd \in LimitVerbs => ParseFloat(args[3]).ok
    /\ cmd = V_cancel => ParseInt(args[2]).ok

\* C3 as stated: a command whose argument count differs from the verb's
\* arity, too few or too many, prints an error and is not dispatched.
C3_FixedArity ==
    (AfterIteration /\ Cmd \in ArgVerbs /\ Len(Args) # RequiredArgs(Cmd)) =>
        /\ out = <<"usage">>
        /\ botCalls = <<>>
        /\ calls = <<>>

\* C3 as amended: a command with fewer arguments than its verb needs prints
\* the usage error and is not dispatched; surplus arguments are no error:
\* a command whose needed arguments parse is dispatched whatever follows them.
C3_MinimumArity ==
    (AfterIteration /\ Cmd \in ArgVerbs) =>
        /\ Len(Args) < RequiredArgs(Cmd) =>
              /\ out = <<"usage">>
              /\ botCalls = <<>>
              /\ calls = <<>>
        /\ WellFormed(Cmd, Args) =>
              /\ botCalls # <<>>
              /\ calls # <<>>
              /\ \A i \in 1..Len(out) : out[i] # "usage"

\* C3 witness: buy_limit with two arguments printed the usage error
C3_Witness ==
    /\ pc = "loop"
    /\ Cmd = V_buy_limit
    /\ Len(Args) = 2
    /\ out = <<"usage">>

\* C4 as stated: an iteration of the loop issues at most one remote request.
C4_AtMostOneCall == AfterIteration => Len(calls) <= 1

\* C4 as amended: an iteration issues at most two remote requests; two only
\* for an order verb, the symbol lookup that returned and then the one order
\* submission; every other verb issues at most one.
C4_AtMostTwoCalls ==
    AfterIteration =>
        /\ Len(calls) <= 2
        /\ Cmd \notin OrderVerbs => Len(calls) <= 1
        /\ Len(calls) = 2 =>
              /\ calls[1].api = "futures_exchange_info"
              /\ calls[1].ended = "ok"
              /\ calls[2].api = "futures_create_order"

\* C4 witness: an order verb issued the lookup and the submission
C4_Witness ==
    /\ pc = "loop"
    /\ Cmd \in OrderVerbs
    /\ Len(calls) = 2

\* a decimal string that denotes a number other than zero
NonZeroAmount(amt) == \E i \in 1..Len(amt) : IsDigit(amt[i]) /\ amt[i] # "0"

\* C5: get_positions, given the exchange's list and an optional symbol,
\* returns exactly the positions of non-zero size (of that symbol, when one
\* is given), in the exchange's order.
C5_PositionsFiltered ==
    (apiCall.name = "get_positions" /\ apiCall.response.kind = "ok") =>
        LET given  == apiCall.response.positions
            result == apiResult.positions
            keep   == {i \in 1..Len(given) :
                          /\ NonZeroAmount(given[i].positionAmt)
                          /\ apiCall.symbol # <<>> => given[i].symbol = apiCall.symbol}
            Nth(k) == CHOOSE i \in keep : Cardinality({j \in keep : j < i}) = k - 1
        IN  /\ apiResult.raised = "none"
            /\ Len(result) = Cardinality(keep)
            /\ \A k \in 1..Len(result) : result[k] = given[Nth(k)]

\* C5 witness: with a symbol given, a zero-size position of that symbol was
\* dropped and another position of that symbol was kept
C5_Witness ==
    /\ apiCall.name = "get_positions"
    /\ apiCall.response.kind = "ok"
    /\ apiCall.symbol = BTC
    /\ Len(apiResult.positions) = 1
    /\ \E i \in 1..Len(apiCall.response.positions) :
          /\ apiCall.response.positions[i].symbol = BTC
          /\ ~NonZeroAmount(apiCall.response.positions[i].positionAmt)

\* C6: validate_symbol, whether the lookup returns or fails, raises nothing
\* and returns a boolean: true exactly when the exchange's list has an entry
\* for the symbol whose status is TRADING, false otherwise (status not
\* TRADING, symbol absent, lookup failed).
C6_ValidateSymbol ==
    (apiCall.name = "validate_symbol" /\ apiCall.response.kind # "interrupt") =>
        LET entries == apiCall.response.symbols
            trading == /\ apiCall.response.kind = "ok"
                       /\ \E i \in 1..Len(entries) :
                             /\ entries[i].symbol = apiCall.symbol
                             /\ \A j \in 1..(i - 1) : entries[j].symbol # apiCall.symbol
                             /\ entries[i].hasStatus
                             /\ entries[i].status = "TRADING"
        IN  /\ apiResult.ret \in {"true", "false"}
            /\ apiResult.ret = "true" <=> trading

\* C6 witness: the lookup failed and validate_symbol returned false
C6_Witness ==
    /\ apiCall.name = "validate_symbol"
    /\ apiCall.response.kind = "error"
    /\ apiResult.ret = "false"

C8_NoDivisionByZero ==
    /\ (report.kind # "none" /\ trade_count = 0) =>
          (report.kind = "no_trades" /\ ~report.divided)
    /\ report.divided => trade_count > 0

\* C8 witness: the performance verb reported with no trade attempted
C8_Witness ==
    /\ pc = "loop"
    /\ Cmd = V_performance
    /\ trade_count = 0
    /\ report.kind = "no_trades"

\* C9: a report made after at least one attempt states the success rate
\* successful_trades / trade_count * 100 to the nearest hundredth, and after
\* three attempts of which two returned true and one false it states 66.67.
C9_SuccessRate ==
    report.kind = "metrics" =>
        LET h == report.rate.whole * 100 + report.rate.frac
        IN  /\ 2 * (h * trade_count - successful_trades * 10000) \in
                   (0 - trade_count)..trade_count
            /\ (attemptsTrue = 2 /\ attemptsFalse = 1) => h = 6667

\* C10: whenever the loop has ended, stop() was called last: the running
\* flag is false and the performance report was made.
C10_StopAfterLoop ==
    pc = "done" =>
        /\ ~running
        /\ botCalls # <<>>
        /\ botCalls[Len(botCalls)] = "stop"
        /\ report.kind \in {"no_trades", "metrics"}

\* C10 witness: an interrupt during a command's remote call ended the loop
C10_Witness ==
    /\ pc = "done"
    /\ calls # <<>>
    /\ calls[Len(calls)].ended = "interrupt"
    /\ ~running
    /\ report.kind # "none"

\* C11: the help verb is dispatched to a handler that displays the command
\* table: the iteration prints the table and does not end in the
\* unexpected-error path of the loop.
C11_HelpDisplaysTable ==
    (AfterIteration /\ Cmd = V_help) =>
        /\ \E i \in 1..Len(out) : out[i] = "help_table"
        /\ \A i \in 1..Len(out) : out[i] # "unexpected_error"

\* C12: a command line whose first token is no verb prints the
\* unknown-command error and then the help hint, calls neither the
\* orchestrator nor the adapter, issues no remote request, leaves the counters
\* and the running flag as they were, and the loop goes on to the next
\* command.
C12_UnknownCommand ==
    [][(pc = "prompt" /\ line' # <<>> /\ parse_command(line').cmd \notin Verbs) =>
          /\ out' = <<"unknown_command", "help_hint">>
          /\ botCalls' = <<>>
          /\ calls' = <<>>
          /\ report' = NoReport
          /\ pc' = "loop"
          /\ UNCHANGED <<trade_count, successful_trades, failed_trades, running>>]_vars

\* C12 witness: after a counted order attempt, a line whose first token is
\* no verb was answered with the error and the hint
C12_Witness ==
    /\ pc = "loop"
    /\ line # <<>>
    /\ Cmd \notin Verbs
    /\ out = <<"unknown_command", "help_hint">>
    /\ trade_count > 0

\* a remote request that ended in a failure of the call
Failed(req) == req.ended \in {"error", "api_error"}

\* C13: no failure is retried: within one iteration no remote call is issued
\* twice, a remote call that failed is the last request of the iteration,
\* and after it the loop is alive, waiting for the next command.
C13_NoRetry ==
    AfterIteration =>
        /\ \A i, j \in 1..Len(calls) : i # j => calls[i].api # calls[j].api
        /\ \A i \in 1..Len(calls) :
              Failed(calls[i]) => (i = Len(calls) /\ pc = "loop")

\* C13 witness: the price query failed once, the error was printed and the
\* loop went on
C13_Witness ==
    /\ pc = "loop"
    /\ Cmd = V_price
    /\ Len(calls) = 1
    /\ Failed(calls[1])
    /\ out = <<"price_error">>

\* C14: the counters change only in an iteration of an order verb in which
\* place_market_order or place_limit_order returned after its submission
\* had returned or failed; every other verb leaves the three counters as
\* they were.
C14_CountersOnlyByOrders ==
    [][pc = "prompt" =>
          /\ <<trade_count, successful_trades, failed_trades>>'
                 # <<trade_count, successful_trades, failed_trades>> =>
                /\ parse_command(line').cmd \in OrderVerbs
                /\ placeRet' \in {"true", "false"}
                /\ \E i \in 1..Len(calls') :
                      /\ calls'[i].api = "futures_create_order"
                      /\ calls'[i].ended \in {"ok", "error", "api_error"}
          /\ parse_command(line').cmd \in Verbs \ OrderVerbs =>
                UNCHANGED <<trade_count, successful_trades, failed_trades>>]_vars

\* C14 witness: with an attempt counted, a cancellation failed
C14_Witness ==
    /\ pc = "loop"
    /\ Cmd = V_cancel
    /\ out = <<"cancel_failed">>
    /\ trade_count > 0

\* the exceptions a failed remote call raises
RemoteErrors == {RaisedBy("error"), RaisedBy("api_error")}

\* C15: get_symbol_info, when the exchange's metadata was obtained, returns
\* the entry of the metadata whose symbol is the argument if there is one,
\* and otherwise raises a not-found error, which is none of the errors a
\* failed remote call raises.
C15_GetSymbolInfo ==
    (apiCall.name = "get_symbol_info" /\ apiCall.response.kind = "ok") =>
        LET entries == apiCall.response.symbols
            present == \E i \in 1..Len(entries) : entries[i].symbol = apiCall.symbol
        IN  /\ present =>
                  /\ apiResult.raised = "none"
                  /\ apiResult.info.symbol = apiCall.symbol
                  /\ \E i \in 1..Len(entries) : entries[i] = apiResult.info
            /\ ~present =>
                  /\ apiResult.raised = "ValueError"
                  /\ apiResult.raised \notin RemoteErrors

\* C15 witness: the metadata was obtained and has no entry for the symbol
C15_Witness ==
    /\ apiCall.name = "get_symbol_info"
    /\ apiCall.response.kind = "ok"
    /\ \A i \in 1..Len(apiCall.response.symbols) :
          apiCall.response.symbols[i].symbol # apiCall.symbol
    /\ apiResult.raised = "ValueError"

\* C16: in the initial state and after every step, trade_count equals
\* successful_trades + failed_trades and the three counters are not
\* negative; no step decreases a counter.
C16_CounterInvariant ==
    /\ trade_count = successful_trades + failed_trades
    /\ trade_count >= 0 /\ successful_trades >= 0 /\ failed_trades >= 0
    /\ [][/\ trade_count' = successful_trades' + failed_trades'
           /\ successful_trades' >= 0 /\ failed_trades' >= 0
           /\ trade_count' >= trade_count
           /\ successful_trades' >= successful_trades
           /\ failed_trades' >= failed_trades]_vars

\* C16 witness: attempts that returned true and attempts that returned false
\* have been counted
C16_Witness ==
    /\ pc = "loop"
    /\ attemptsTrue > 0
    /\ attemptsFalse > 0
    /\ successful_trades > 0
    /\ failed_trades > 0

\* C17: one call of place_market_order or place_limit_order that returns
\* increases trade_count by exactly one and exactly one of successful_trades
\* and failed_trades by one, whatever the shape of the order response.
C17_OneAttemptOneCount ==
    [][(pc = "prompt" /\ placeRet' \in {"true", "false"}) =>
          /\ trade_count' = trade_count + 1
          /\ \/ successful_trades' = successful_trades + 1
                    /\ failed_trades' = failed_trades
             \/ successful_trades' = successful_trades
                    /\ failed_trades' = failed_trades + 1]_vars

\* C18: in an order handler, when validate_symbol returned false, the only
\* remote request of the iteration is the symbol lookup, place_market_order
\* and place_limit_order are not called, and the three counters are as they
\* were.
C18_InvalidSymbolNotCounted ==
    [][(pc = "prompt" /\ vsResult' = "false") =>
          /\ parse_command(line').cmd \in OrderVerbs
          /\ botCalls' = <<"validate_symbol">>
          /\ placeRet' = "none"
          /\ Len(calls') = 1
          /\ calls'[1].api = "futures_exchange_info"
          /\ UNCHANGED <<trade_count, successful_trades, failed_trades>>]_vars

\* C18 witness: with an attempt counted, the lookup of a sell_limit command
\* failed and the command was answered with the invalid-symbol error
C18_Witness ==
    /\ pc = "loop"
    /\ Cmd = V_sell_limit
    /\ vsResult = "false"
    /\ Failed(calls[1])
    /\ out = <<"invalid_symbol">>
    /\ trade_count > 0

\* C19: when the connection test made while the client is constructed
\* fails, the process prints the failure and exits with status 1 having
\* issued that one request only, started nothing and read no command, and no
\* step follows; the loop is reached only after a connection test that
\* returned.
C19_ConnectionTestFailure ==
    /\ [](pc = "failed" =>
            /\ Len(calls) = 1
            /\ calls[1].api = "futures_account"
            /\ Failed(calls[1])
            /\ botCalls = <<>>
            /\ line = <<>>
            /\ out = <<"failed_to_start">>
            /\ ~running
            /\ exit_status = "1")
    /\ [](pc = "started" =>
            /\ calls # <<>>
            /\ calls[1].api = "futures_account"
            /\ calls[1].ended = "ok")
    /\ [][pc # "failed"]_vars

\* C19 witness: the connection test failed and the process exited
C19_Witness ==
    /\ pc = "failed"
    /\ Failed(calls[1])
    /\ exit_status = "1"

====
